---- MODULE Spec2Model ----
(***************************************************************************)
(* The rating service of FAForever/faf-rating-service as a state machine.  *)
(*                                                                         *)
(* One asyncio event loop runs every coroutine of the service, so an       *)
(* action of this module is what one coroutine does between two points at  *)
(* which it really suspends: a store call, a bus call, Queue.get() on an   *)
(* empty queue, Queue.join() on unfinished work.  "await queue.put(x)" on  *)
(* the unbounded queue and "await queue.get()" on a non-empty queue do not *)
(* suspend.  A store or bus call takes effect in the step that resumes the *)
(* caller; it may also raise.  CancelledError is a BaseException (Python   *)
(* 3.8 and later): "except Exception" does not catch it.                   *)
(***************************************************************************)
EXTENDS Integers, Sequences, FiniteSets, TLC

(***************************************************************************)
(* Bounds of the model.                                                    *)
(***************************************************************************)
MaxMsgs == 2          \* calls of enqueue
MaxInitCalls == 2     \* calls of initialize (each may start one worker)
MaxFaults == 1        \* store / bus calls that raise
MaxKills == 1         \* calls of kill
MaxShutdowns == 1     \* calls of shutdown
MaxRefresh == 1       \* cron runs of update_data
MaxTableChanges == 1  \* edits of the leaderboard table by its owner

(***************************************************************************)
(* Program constants.                                                      *)
(***************************************************************************)
START_RATING_MEAN == 1500
START_RATING_DEV == 500

NoneId == 0           \* Python's None where an id is expected

Players == {1, 2}
MsgIds == 1..MaxMsgs
Workers == 1..MaxInitCalls

\* class RatingType(Enum): member names; a member is written "RatingType.<NAME>"
RatingTypeNames == {"GLOBAL", "LADDER_1V1"}
\* class GameOutcome(Enum): member names
GameOutcomeNames == {"VICTORY", "DEFEAT", "DRAW", "MUTUAL_DRAW", "UNKNOWN", "CONFLICTING"}

\* getattr(RatingType, name): the member, distinct from every technical name
RatingTypeMember(name) == IF name = "GLOBAL" THEN "RatingType.GLOBAL"
                          ELSE "RatingType.LADDER_1V1"

(***************************************************************************)
(* Inbound payloads (the dict handed to enqueue).  keys is the set of keys *)
(* the dict has; ack is the "_ack" entry: "none" (absent), "ok" (a handle  *)
(* that returns) or "raises" (a handle that raises).                       *)
(***************************************************************************)
Team(o, ps) == [outcome |-> o, player_ids |-> ps]

AllKeys == {"game_id", "rating_type", "teams"}

Payload(keys, rt, teams, ack) ==
    [keys |-> keys, game_id |-> 1, rating_type |-> rt, teams |-> teams, ack |-> ack]

OneVsOne == <<Team("VICTORY", {1}), Team("DEFEAT", {2})>>
BothWin == <<Team("VICTORY", {1}), Team("VICTORY", {2})>>
NoPlayers == <<Team("VICTORY", {}), Team("DEFEAT", {})>>
NoPlayersBothWin == <<Team("VICTORY", {}), Team("VICTORY", {})>>
ThreeTeams == <<Team("VICTORY", {1}), Team("DEFEAT", {2}), Team("DEFEAT", {})>>
BadOutcome == <<Team("WIN", {1}), Team("DEFEAT", {2})>>

Payloads ==
    { Payload(AllKeys, "GLOBAL", OneVsOne, a) : a \in {"ok", "raises"} }
    \cup { Payload(AllKeys, "LADDER_1V1", OneVsOne, "none") }
    \cup { Payload(AllKeys, "GLOBAL", t, "ok") : t \in {BothWin, NoPlayers, NoPlayersBothWin} }
    \cup { Payload(AllKeys, "global", OneVsOne, a) : a \in {"ok", "none"} }
    \cup { Payload(AllKeys, "GLOBAL", t, "ok") : t \in {ThreeTeams, BadOutcome} }
    \cup { Payload(AllKeys \ {"game_id"}, "GLOBAL", OneVsOne, "ok") }

(***************************************************************************)
(* GameRatingSummaryWithCallback.from_game_info_dict.  ParseFails is the   *)
(* condition under which it raises (KeyError, ValueError, AttributeError); *)
(* from_game_info_dict is the summary it returns otherwise.  rid names the *)
(* message the "_ack" handle belongs to.                                   *)
(***************************************************************************)
ParseFails(game_info) ==
    \/ "teams" \notin game_info.keys
    \/ Len(game_info.teams) # 2
    \/ "game_id" \notin game_info.keys
    \/ "rating_type" \notin game_info.keys
    \/ game_info.rating_type \notin RatingTypeNames
    \/ \E i \in 1..Len(game_info.teams) : game_info.teams[i].outcome \notin GameOutcomeNames

from_game_info_dict(game_info, rid) ==
    [game_id |-> game_info.game_id,
     rating_type |-> RatingTypeMember(game_info.rating_type),
     teams |-> game_info.teams,
     callback |-> game_info.ack,
     rid |-> rid]

NoSummary == [game_id |-> 0, rating_type |-> "", teams |-> <<>>, callback |-> "none", rid |-> 0]


(***************************************************************************)
(* The state.                                                              *)
(***************************************************************************)
VARIABLES
    accept_input,        \* RatingService._accept_input
    queue,               \* RatingService._queue: the summaries waiting in it
    unfinished,          \* asyncio.Queue._unfinished_tasks (put minus task_done)
    task,                \* RatingService._task: 0 is None, else the worker it names
    rating_type_ids,     \* RatingService._rating_type_ids: [loaded, ids]; ~loaded is None
    backlog,             \* the gauge rating_service_backlog
    cron,                \* an aiocron.crontab running update_data exists
    subscribed,          \* subscriptions made by MessageQueueService.listen
    leaderboard,         \* table leaderboard: technical_name -> id
    leaderboard_rating,  \* table leaderboard_rating: its rows, oldest first
    journal,             \* table leaderboard_rating_journal: its rows, oldest first
    published,           \* messages published with RATING_UPDATE_ROUTING_KEY, oldest first
    init,                \* per call of initialize: [pc, rows]
    refresh,             \* the cron's current run of update_data: [pc, rows]
    shut,                \* the call of shutdown: "idle", "joining" or "woken"
    worker,              \* per worker task: its frame (position and locals)
    msgs,                \* per message handed to enqueue: what became of it:
                         \*   status   "none", "ServiceNotReadyError", "dropped" or "queued"
                         \*   acks     how often its "_ack" handle was invoked
                         \*   ended    "no", or how _rate ended for it
                         \*   summary  the summary put on the queue for it
    nmsg,                \* messages handed to enqueue so far
    faults,              \* store / bus calls that raised so far
    kills,               \* calls of kill so far
    shutCalls,           \* calls of shutdown so far
    shutReturns,         \* returns of shutdown so far
    refreshes,           \* cron runs started so far
    tableChanges,        \* edits of the leaderboard table so far
    killedInFlight       \* messages some worker was rating when kill was called

vars == <<accept_input, queue, unfinished, task, rating_type_ids, backlog, cron,
          subscribed, leaderboard, leaderboard_rating, journal, published, init,
          refresh, shut, worker, msgs, nmsg, faults, kills, shutCalls, shutReturns,
          refreshes, tableChanges, killedInFlight>>

serviceVars == <<accept_input, task, rating_type_ids, cron, subscribed>>
queueVars == <<queue, unfinished, backlog, msgs, nmsg>>
storeVars == <<leaderboard_rating, journal, published>>
countVars == <<faults, kills, shutCalls, shutReturns, refreshes, tableChanges>>

(***************************************************************************)
(* The leaderboard table as the tests' database has it, and as it is after *)
(* its owner dropped ladder_1v1 and re-created global under a new id.      *)
(***************************************************************************)
SeededLeaderboard == ("global" :> 1) @@ ("ladder_1v1" :> 2)
EditedLeaderboard == ("global" :> 3)

NoDirectory == [loaded |-> FALSE, ids |-> <<>>]

\* dict.get(key): the id, or None
DirGet(ids, key) == IF key \in DOMAIN ids THEN ids[key] ELSE NoneId

(***************************************************************************)
(* Frames: where a task running _rate is, and its locals.                  *)
(*   pc       the await it is suspended at, or how it ended                *)
(*   summary  the request                                                  *)
(*   todo     the players the current loop has still to visit              *)
(*   old      ratings fetched so far (rating_data / old_ratings)           *)
(*   new      new_ratings                                                  *)
(*   rtid     the local rating_type_id                                     *)
(***************************************************************************)
IdleFrame(pc) ==
    [pc |-> pc, summary |-> NoSummary, todo |-> <<>>, old |-> <<>>, new |-> <<>>, rtid |-> NoneId]

AwaitingStore == {"select", "insert", "acquire", "journal", "update", "publish"}
RateEnded == {"return", "GameRatingError", "Exception"}

Rating(mu, sigma) == [mu |-> mu, sigma |-> sigma]

RECURSIVE SortedSeq(_)
SortedSeq(S) ==
    IF S = {} THEN <<>>
    ELSE LET m == CHOOSE x \in S : \A y \in S : x <= y IN <<m>> \o SortedSeq(S \ {m})

\* the order in which the loops over summary.teams visit the players
PlayerOrder(teams) == SortedSeq(teams[1].player_ids) \o SortedSeq(teams[2].player_ids)

(***************************************************************************)
(* GameRater.compute_rating.  It fails on every outcome pair other than    *)
(* one victory and one defeat; otherwise every player gets a posterior:    *)
(* the winners' means rise, the losers' fall, every deviation shrinks.     *)
(***************************************************************************)
compute_fails(teams) ==
    <<teams[1].outcome, teams[2].outcome>> \notin {<<"VICTORY", "DEFEAT">>, <<"DEFEAT", "VICTORY">>}

Posterior(prior, won) ==
    Rating(IF won THEN prior.mu + prior.sigma \div 5 ELSE prior.mu - prior.sigma \div 5,
           prior.sigma - prior.sigma \div 10)

compute_rating(teams, old) ==
    [p \in DOMAIN old |->
        Posterior(old[p], \E i \in 1..2 : p \in teams[i].player_ids /\ teams[i].outcome = "VICTORY")]

(***************************************************************************)
(* The store's tables.                                                     *)
(***************************************************************************)
RatingRow(p, id, mean, dev, total, won) ==
    [login_id |-> p, leaderboard_id |-> id, mean |-> mean, deviation |-> dev,
     total_games |-> total, won_games |-> won]

Matches(row, p, id) == row.login_id = p /\ row.leaderboard_id = id

\* the position of the row fetchone() returns, 0 when there is none
FirstMatch(p, id) ==
    LET S == {i \in 1..Len(leaderboard_rating) : Matches(leaderboard_rating[i], p, id)}
    IN IF S = {} THEN 0 ELSE CHOOSE i \in S : \A j \in S : i <= j

\* the seeded database: player 1 has a global rating, player 2 has none
SeededRatings == <<RatingRow(1, 1, 2000, 125, 4, 3)>>

(***************************************************************************)
(* _rate, cut at its awaits.                                               *)
(***************************************************************************)

\* _persist_rating_changes: the loop head, up to the await of the journal insert
PersistNext(f) ==
    IF f.todo = <<>> THEN [f EXCEPT !.pc = "return"]
    ELSE IF f.summary.rating_type \notin DOMAIN rating_type_ids.ids
         THEN [f EXCEPT !.pc = "Exception"]     \* KeyError
         ELSE [f EXCEPT !.pc = "journal", !.rtid = rating_type_ids.ids[f.summary.rating_type]]

\* _rate after _get_rating_data: compute, then enter _persist_rating_changes
Rated(f) ==
    IF compute_fails(f.summary.teams) THEN [f EXCEPT !.pc = "GameRatingError"]
    ELSE [f EXCEPT !.pc = "acquire",
                   !.new = compute_rating(f.summary.teams, f.old),
                   !.todo = PlayerOrder(f.summary.teams)]

\* FetchNext without the "rating_type_id is None" check of lines 171-172
FetchNext_unchecked(f) ==
    IF f.todo = <<>> THEN Rated(f)
    ELSE IF ~rating_type_ids.loaded THEN [f EXCEPT !.pc = "Exception"]
    ELSE [f EXCEPT !.pc = "select",
                   !.rtid = DirGet(rating_type_ids.ids, f.summary.rating_type)]

\* _get_rating_data: the loop head, and _get_player_rating up to its first await
FetchNext(f) ==
    IF f.todo = <<>> THEN Rated(f)
    ELSE IF ~rating_type_ids.loaded THEN [f EXCEPT !.pc = "Exception"]  \* ServiceNotReadyError
    ELSE LET rating_type_id == DirGet(rating_type_ids.ids, f.summary.rating_type)
         IN IF rating_type_id = NoneId
            THEN [f EXCEPT !.pc = "Exception"]                          \* ValueError
            ELSE [f EXCEPT !.pc = "select", !.rtid = rating_type_id]

\* the frame of a task that calls _rate(summary), run to its first await
BeginRate(summary) ==
    FetchNext([pc |-> "running", summary |-> summary, todo |-> PlayerOrder(summary.teams),
               old |-> <<>>, new |-> <<>>, rtid |-> NoneId])

\* the awaited call has returned: the frame at the next await
AfterAwait(f) ==
    LET p == Head(f.todo) IN
    CASE f.pc = "select" ->
            LET i == FirstMatch(p, f.rtid) IN
            IF i # 0
            THEN FetchNext([f EXCEPT !.old = (p :> Rating(leaderboard_rating[i].mean,
                                                          leaderboard_rating[i].deviation)) @@ @,
                                     !.todo = Tail(@)])
            ELSE [f EXCEPT !.pc = "insert",
                           !.rtid = DirGet(rating_type_ids.ids, f.summary.rating_type)]
      [] f.pc = "insert" ->
            FetchNext([f EXCEPT !.old = (p :> Rating(START_RATING_MEAN, START_RATING_DEV)) @@ @,
                                !.todo = Tail(@)])
      [] f.pc = "acquire" -> PersistNext(f)
      [] f.pc = "journal" -> [f EXCEPT !.pc = "update"]
      [] f.pc = "update" -> [f EXCEPT !.pc = "publish"]
      [] f.pc = "publish" -> PersistNext([f EXCEPT !.todo = Tail(@)])

\* RatingsAfter with a victory_increment of 1 whatever the outcome
RatingsAfter_always_won(f) ==
    LET p == Head(f.todo) IN
    CASE f.pc = "insert" ->
            Append(leaderboard_rating,
                   RatingRow(p, f.rtid, START_RATING_MEAN, START_RATING_DEV, 0, 0))
      [] f.pc = "update" ->
            [i \in 1..Len(leaderboard_rating) |->
                LET row == leaderboard_rating[i] IN
                IF Matches(row, p, f.rtid)
                THEN [row EXCEPT !.mean = f.new[p].mu,
                                 !.deviation = f.new[p].sigma,
                                 !.total_games = @ + 1,
                                 !.won_games = @ + 1]
                ELSE row]
      [] OTHER -> leaderboard_rating

\* RatingsAfter in which the insert of a default row does not last
RatingsAfter_no_insert(f) ==
    LET p == Head(f.todo) IN
    CASE f.pc = "update" ->
            [i \in 1..Len(leaderboard_rating) |->
                LET row == leaderboard_rating[i] IN
                IF Matches(row, p, f.rtid)
                THEN [row EXCEPT !.mean = f.new[p].mu,
                                 !.deviation = f.new[p].sigma,
                                 !.total_games = @ + 1,
                                 !.won_games = @ + (IF \E t \in 1..2 :
                                                          /\ p \in f.summary.teams[t].player_ids
                                                          /\ f.summary.teams[t].outcome = "VICTORY"
                                                    THEN 1 ELSE 0)]
                ELSE row]
      [] OTHER -> leaderboard_rating

\* what the awaited call has done to leaderboard_rating
RatingsAfter(f) ==
    LET p == Head(f.todo) IN
    CASE f.pc = "insert" ->
            Append(leaderboard_rating,
                   RatingRow(p, f.rtid, START_RATING_MEAN, START_RATING_DEV, 0, 0))
      [] f.pc = "update" ->
            [i \in 1..Len(leaderboard_rating) |->
                LET row == leaderboard_rating[i] IN
                IF Matches(row, p, f.rtid)
                THEN [row EXCEPT !.mean = f.new[p].mu,
                                 !.deviation = f.new[p].sigma,
                                 !.total_games = @ + 1,
                                 !.won_games = @ + (IF \E t \in 1..2 :
                                                          /\ p \in f.summary.teams[t].player_ids
                                                          /\ f.summary.teams[t].outcome = "VICTORY"
                                                    THEN 1 ELSE 0)]
                ELSE row]
      [] OTHER -> leaderboard_rating

\* what the awaited call has done to leaderboard_rating_journal
JournalAfter(f) ==
    IF f.pc = "journal"
    THEN LET p == Head(f.todo) IN
         Append(journal, [game_id |-> f.summary.game_id, player_id |-> p,
                          leaderboard_id |-> f.rtid,
                          rating_mean_before |-> f.old[p].mu,
                          rating_deviation_before |-> f.old[p].sigma,
                          rating_mean_after |-> f.new[p].mu,
                          rating_deviation_after |-> f.new[p].sigma])
    ELSE journal

\* what the awaited call has put on the bus
PublishedAfter(f) ==
    IF f.pc = "publish"
    THEN LET p == Head(f.todo) IN
         Append(published, [player_id |-> p, rating_type |-> f.summary.rating_type,
                            new_rating_mean |-> f.new[p].mu,
                            new_rating_deviation |-> f.new[p].sigma])
    ELSE published


(***************************************************************************)
(* _handle_rating_queue.  A worker runs from the point it is resumed to    *)
(* its next suspension; what it changes on the way is threaded through a   *)
(* record W of the queue, its unfinished count, the messages' fates, the   *)
(* gauge, the joining shutdown and the worker's own frame.                 *)
(***************************************************************************)
World(f) ==
    [queue |-> queue, unfinished |-> unfinished, msgs |-> msgs, backlog |-> backlog,
     shut |-> shut, frame |-> f]

\* summary.callback(): the handle of message rid is invoked
Acked(W, rid) == [W EXCEPT !.msgs[rid].acks = @ + 1]

\* Queue.task_done(): the last one sets the event Queue.join() waits on
task_done(W) ==
    [W EXCEPT !.unfinished = @ - 1,
              !.shut = IF W.unfinished = 1 /\ @ = "joining" THEN "woken" ELSE @]

RECURSIVE handle_rating_queue(_)

\* EndRequest without the "except Exception" clause: the exception ends the task
EndRequest_uncaught(W) ==
    LET summary == W.frame.summary
        W1 == [task_done(W) EXCEPT !.msgs[summary.rid].ended = W.frame.pc]
    IN IF W.frame.pc = "Exception"
       THEN [W EXCEPT !.msgs[summary.rid].ended = "Exception", !.frame = IdleFrame("crashed")]
       ELSE IF summary.callback = "none"
       THEN handle_rating_queue([W1 EXCEPT !.backlog = Len(W1.queue)])
       ELSE IF summary.callback = "ok"
       THEN handle_rating_queue([Acked(W1, summary.rid) EXCEPT !.backlog = Len(W1.queue)])
       ELSE [Acked(W1, summary.rid) EXCEPT !.frame = IdleFrame("crashed")]

\* EndRequest that invokes the handle only when _rate returned
EndRequest_ack_on_success(W) ==
    LET summary == W.frame.summary
        W1 == [task_done(W) EXCEPT !.msgs[summary.rid].ended = W.frame.pc]
    IN IF summary.callback = "none" \/ W.frame.pc # "return"
       THEN handle_rating_queue([W1 EXCEPT !.backlog = Len(W1.queue)])
       ELSE IF summary.callback = "ok"
       THEN handle_rating_queue([Acked(W1, summary.rid) EXCEPT !.backlog = Len(W1.queue)])
       ELSE [Acked(W1, summary.rid) EXCEPT !.frame = IdleFrame("crashed")]

\* _rate has ended (returned or raised): lines 110-120, then the loop again
EndRequest(W) ==
    LET summary == W.frame.summary
        W1 == [task_done(W) EXCEPT !.msgs[summary.rid].ended = W.frame.pc]
    IN CASE summary.callback = "none" ->
                handle_rating_queue([W1 EXCEPT !.backlog = Len(W1.queue)])
         [] summary.callback = "ok" ->
                handle_rating_queue([Acked(W1, summary.rid) EXCEPT !.backlog = Len(W1.queue)])
         [] summary.callback = "raises" ->
                [Acked(W1, summary.rid) EXCEPT !.frame = IdleFrame("crashed")]

\* the while loop from its condition to the worker's next suspension
handle_rating_queue(W) ==
    IF ~(accept_input \/ W.queue # <<>>) THEN [W EXCEPT !.frame = IdleFrame("stopped")]
    ELSE IF W.queue = <<>> THEN [W EXCEPT !.frame = IdleFrame("get")]
    ELSE LET W1 == [W EXCEPT !.queue = Tail(@), !.frame = BeginRate(Head(W.queue))]
         IN IF W1.frame.pc \in RateEnded THEN EndRequest(W1) ELSE W1

\* the worker w is left as W says
Suspend(w, W) ==
    /\ queue' = W.queue
    /\ unfinished' = W.unfinished
    /\ msgs' = W.msgs
    /\ backlog' = W.backlog
    /\ shut' = W.shut
    /\ worker' = [worker EXCEPT ![w] = W.frame]

(***************************************************************************)
(* Init: a RatingService as __init__ leaves it, on the seeded database.    *)
(***************************************************************************)
Init ==
    /\ accept_input = FALSE
    /\ queue = <<>>
    /\ unfinished = 0
    /\ task = 0
    /\ rating_type_ids = NoDirectory
    /\ backlog = 0
    /\ cron = FALSE
    /\ subscribed = 0
    /\ leaderboard = SeededLeaderboard
    /\ leaderboard_rating = SeededRatings
    /\ journal = <<>>
    /\ published = <<>>
    /\ init = [i \in Workers |-> [pc |-> "none", rows |-> <<>>]]
    /\ refresh = [pc |-> "idle", rows |-> <<>>]
    /\ shut = "idle"
    /\ worker = [w \in Workers |-> IdleFrame("none")]
    /\ msgs = [m \in MsgIds |-> [status |-> "none", acks |-> 0, ended |-> "no",
                                 summary |-> NoSummary]]
    /\ nmsg = 0
    /\ faults = 0
    /\ kills = 0
    /\ shutCalls = 0
    /\ shutReturns = 0
    /\ refreshes = 0
    /\ tableChanges = 0
    /\ killedInFlight = {}

(***************************************************************************)
(* initialize                                                              *)
(***************************************************************************)

\* InitializeCall without the test of _task
InitializeCall_unguarded(i) ==
    /\ init[i].pc = "none"
    /\ worker[i].pc = "none"
    /\ \A j \in Workers : j < i => init[j].pc # "none"
    /\ init' = [init EXCEPT ![i].pc = "loading"]
    /\ UNCHANGED <<serviceVars, queueVars, storeVars, countVars, leaderboard, refresh,
                   shut, worker, killedInFlight>>

\* the call: refused when a task exists, else update_data is awaited
InitializeCall(i) ==
    /\ init[i].pc = "none"
    /\ worker[i].pc = "none"
    /\ \A j \in Workers : j < i => init[j].pc # "none"
    /\ init' = [init EXCEPT ![i].pc = IF task # 0 THEN "refused" ELSE "loading"]
    /\ UNCHANGED <<serviceVars, queueVars, storeVars, countVars, leaderboard, refresh,
                   shut, worker, killedInFlight>>

\* InitializeRead that swallows the failure and goes on with no rows
InitializeRead_swallowed(i, ok) ==
    /\ init[i].pc = "loading"
    /\ ok \/ faults < MaxFaults
    /\ faults' = IF ok THEN faults ELSE faults + 1
    /\ init' = [init EXCEPT ![i] = IF ok THEN [pc |-> "loaded", rows |-> leaderboard]
                                         ELSE [pc |-> "loaded", rows |-> <<>>]]
    /\ UNCHANGED <<serviceVars, queueVars, storeVars, kills, shutCalls, shutReturns,
                   refreshes, tableChanges, leaderboard, refresh, shut, worker,
                   killedInFlight>>

\* update_data: the select on leaderboard returns its rows, or raises
InitializeRead(i, ok) ==
    /\ init[i].pc = "loading"
    /\ ok \/ faults < MaxFaults
    /\ faults' = IF ok THEN faults ELSE faults + 1
    /\ init' = [init EXCEPT ![i] = IF ok THEN [pc |-> "loaded", rows |-> leaderboard]
                                         ELSE [pc |-> "failed", rows |-> <<>>]]
    /\ UNCHANGED <<serviceVars, queueVars, storeVars, kills, shutCalls, shutReturns,
                   refreshes, tableChanges, leaderboard, refresh, shut, worker,
                   killedInFlight>>

\* update_data assigns the directory; lines 45-51 up to the await of listen
InitializeStart(i) ==
    /\ init[i].pc = "loaded"
    /\ rating_type_ids' = [loaded |-> TRUE, ids |-> init[i].rows]
    /\ cron' = TRUE
    /\ accept_input' = TRUE
    /\ worker' = [worker EXCEPT ![i] = IdleFrame("start")]
    /\ task' = i
    /\ init' = [init EXCEPT ![i] = [pc |-> "listening", rows |-> <<>>]]
    /\ UNCHANGED <<subscribed, queueVars, storeVars, countVars, leaderboard, refresh, shut,
                   killedInFlight>>

\* listen returns with the subscription made, or raises
InitializeListen(i, ok) ==
    /\ init[i].pc = "listening"
    /\ ok \/ faults < MaxFaults
    /\ faults' = IF ok THEN faults ELSE faults + 1
    /\ subscribed' = IF ok THEN subscribed + 1 ELSE subscribed
    /\ init' = [init EXCEPT ![i].pc = IF ok THEN "done" ELSE "failed"]
    /\ UNCHANGED <<accept_input, task, rating_type_ids, cron, queueVars, storeVars, kills,
                   shutCalls, shutReturns, refreshes, tableChanges, leaderboard, refresh,
                   shut, worker, killedInFlight>>

(***************************************************************************)
(* update_data as the cron runs it                                         *)
(***************************************************************************)
RefreshRead(ok) ==
    /\ cron
    /\ refresh.pc = "idle"
    /\ refreshes < MaxRefresh
    /\ ok \/ faults < MaxFaults
    /\ faults' = IF ok THEN faults ELSE faults + 1
    /\ refreshes' = refreshes + 1
    /\ refresh' = IF ok THEN [pc |-> "loaded", rows |-> leaderboard] ELSE refresh
    /\ UNCHANGED <<serviceVars, queueVars, storeVars, kills, shutCalls, shutReturns,
                   tableChanges, leaderboard, init, shut, worker, killedInFlight>>

\* RefreshAssign that updates the dict in place and keeps the names it had
RefreshAssign_in_place ==
    /\ refresh.pc = "loaded"
    /\ rating_type_ids' = [loaded |-> TRUE, ids |-> refresh.rows @@ rating_type_ids.ids]
    /\ refresh' = [pc |-> "idle", rows |-> <<>>]
    /\ UNCHANGED <<accept_input, task, cron, subscribed, queueVars, storeVars, countVars,
                   leaderboard, init, shut, worker, killedInFlight>>

RefreshAssign ==
    /\ refresh.pc = "loaded"
    /\ rating_type_ids' = [loaded |-> TRUE, ids |-> refresh.rows]
    /\ refresh' = [pc |-> "idle", rows |-> <<>>]
    /\ UNCHANGED <<accept_input, task, cron, subscribed, queueVars, storeVars, countVars,
                   leaderboard, init, shut, worker, killedInFlight>>

\* the owner of the leaderboard table edits it
TableChange ==
    /\ tableChanges < MaxTableChanges
    /\ tableChanges' = tableChanges + 1
    /\ leaderboard' = IF leaderboard = SeededLeaderboard THEN EditedLeaderboard
                      ELSE SeededLeaderboard
    /\ UNCHANGED <<serviceVars, queueVars, storeVars, faults, kills, shutCalls, shutReturns,
                   refreshes, init, refresh, shut, worker, killedInFlight>>

(***************************************************************************)
(* enqueue                                                                 *)
(***************************************************************************)
NumPlayers(teams) == Len(PlayerOrder(teams))

\* enqueue that parses before it looks at _accept_input
enqueue_parses_first(game_info) ==
    LET rid == nmsg + 1 IN
    /\ nmsg < MaxMsgs
    /\ nmsg' = rid
    /\ IF ParseFails(game_info)
       THEN /\ msgs' = [msgs EXCEPT ![rid].status = "dropped",
                                    ![rid].acks = IF game_info.ack # "none" THEN @ + 1 ELSE @]
            /\ UNCHANGED <<queue, unfinished, backlog>>
       ELSE IF ~accept_input
       THEN /\ msgs' = [msgs EXCEPT ![rid].status = "ServiceNotReadyError"]
            /\ UNCHANGED <<queue, unfinished, backlog>>
       ELSE /\ queue' = Append(queue, from_game_info_dict(game_info, rid))
            /\ unfinished' = unfinished + 1
            /\ backlog' = Len(queue')
            /\ msgs' = [msgs EXCEPT ![rid].status = "queued",
                                    ![rid].summary = from_game_info_dict(game_info, rid)]
    /\ UNCHANGED <<serviceVars, storeVars, countVars, leaderboard, init, refresh, shut,
                   worker, killedInFlight>>

\* enqueue that drops a payload it cannot parse without invoking its handle
enqueue_drops_unacked(game_info) ==
    LET rid == nmsg + 1 IN
    /\ nmsg < MaxMsgs
    /\ nmsg' = rid
    /\ IF ~accept_input
       THEN /\ msgs' = [msgs EXCEPT ![rid].status = "ServiceNotReadyError"]
            /\ UNCHANGED <<queue, unfinished, backlog>>
       ELSE IF ParseFails(game_info)
       THEN /\ msgs' = [msgs EXCEPT ![rid].status = "dropped"]
            /\ UNCHANGED <<queue, unfinished, backlog>>
       ELSE /\ queue' = Append(queue, from_game_info_dict(game_info, rid))
            /\ unfinished' = unfinished + 1
            /\ backlog' = Len(queue')
            /\ msgs' = [msgs EXCEPT ![rid].status = "queued",
                                    ![rid].summary = from_game_info_dict(game_info, rid)]
    /\ UNCHANGED <<serviceVars, storeVars, countVars, leaderboard, init, refresh, shut,
                   worker, killedInFlight>>

enqueue(game_info) ==
    LET rid == nmsg + 1 IN
    /\ nmsg < MaxMsgs
    /\ nmsg' = rid
    /\ IF ~accept_input
       THEN /\ msgs' = [msgs EXCEPT ![rid].status = "ServiceNotReadyError"]
            /\ UNCHANGED <<queue, unfinished, backlog>>
       ELSE IF ParseFails(game_info)
       THEN /\ msgs' = [msgs EXCEPT ![rid].status = "dropped",
                                    ![rid].acks = IF game_info.ack # "none" THEN @ + 1 ELSE @]
            /\ UNCHANGED <<queue, unfinished, backlog>>
       ELSE /\ queue' = Append(queue, from_game_info_dict(game_info, rid))
            /\ unfinished' = unfinished + 1
            /\ backlog' = Len(queue')
            /\ msgs' = [msgs EXCEPT ![rid].status = "queued",
                                    ![rid].summary = from_game_info_dict(game_info, rid)]
    /\ UNCHANGED <<serviceVars, storeVars, countVars, leaderboard, init, refresh, shut,
                   worker, killedInFlight>>

(***************************************************************************)
(* The worker task                                                         *)
(***************************************************************************)

\* the task created by initialize runs for the first time
WorkerRun(w) ==
    /\ worker[w].pc = "start"
    /\ Suspend(w, handle_rating_queue(World(worker[w])))
    /\ UNCHANGED <<serviceVars, storeVars, countVars, leaderboard, init, refresh, nmsg,
                   killedInFlight>>

\* Queue.get() returns to a worker that waited on the empty queue
WorkerGet(w) ==
    /\ worker[w].pc = "get"
    /\ queue # <<>>
    /\ Suspend(w, handle_rating_queue(World(worker[w])))
    /\ UNCHANGED <<serviceVars, storeVars, countVars, leaderboard, init, refresh, nmsg,
                   killedInFlight>>

\* the store or bus call the worker awaits returns, or raises
WorkerResume(w, ok) ==
    /\ worker[w].pc \in AwaitingStore
    /\ ok \/ faults < MaxFaults
    /\ faults' = IF ok THEN faults ELSE faults + 1
    /\ leaderboard_rating' = IF ok THEN RatingsAfter(worker[w]) ELSE leaderboard_rating
    /\ journal' = IF ok THEN JournalAfter(worker[w]) ELSE journal
    /\ published' = IF ok THEN PublishedAfter(worker[w]) ELSE published
    /\ LET f == IF ok THEN AfterAwait(worker[w]) ELSE [worker[w] EXCEPT !.pc = "Exception"]
       IN Suspend(w, IF f.pc \in RateEnded THEN EndRequest(World(f)) ELSE World(f))
    /\ UNCHANGED <<serviceVars, kills, shutCalls, shutReturns, refreshes, tableChanges,
                   leaderboard, init, refresh, nmsg, killedInFlight>>

(***************************************************************************)
(* shutdown and kill                                                       *)
(***************************************************************************)

\* shutdown up to Queue.join(), which returns at once when nothing is unfinished
ShutdownCall ==
    /\ shut = "idle"
    /\ shutCalls < MaxShutdowns
    /\ shutCalls' = shutCalls + 1
    /\ accept_input' = FALSE
    /\ IF unfinished > 0
       THEN /\ shut' = "joining"
            /\ UNCHANGED <<task, shutReturns>>
       ELSE /\ task' = 0
            /\ shutReturns' = shutReturns + 1
            /\ UNCHANGED shut
    /\ UNCHANGED <<rating_type_ids, cron, subscribed, queueVars, storeVars, faults, kills,
                   refreshes, tableChanges, leaderboard, init, refresh, worker,
                   killedInFlight>>

\* Queue.join() returns to the shutdown that waited; lines 298-299
ShutdownReturn ==
    /\ shut = "woken"
    /\ shut' = "idle"
    /\ task' = 0
    /\ shutReturns' = shutReturns + 1
    /\ UNCHANGED <<accept_input, rating_type_ids, cron, subscribed, queueVars, storeVars,
                   faults, kills, shutCalls, refreshes, tableChanges, leaderboard, init,
                   refresh, worker, killedInFlight>>

InFlight(w) == worker[w].pc \in AwaitingStore

\* Task.cancel(): a task that has not ended never runs its code again
Cancelled(f) ==
    IF f.pc \in {"none", "stopped", "crashed"} THEN f ELSE [f EXCEPT !.pc = "cancelled"]

kill ==
    /\ kills < MaxKills
    /\ kills' = kills + 1
    /\ accept_input' = FALSE
    /\ task' = 0
    /\ worker' = IF task # 0 THEN [worker EXCEPT ![task] = Cancelled(@)] ELSE worker
    /\ killedInFlight' = killedInFlight \cup {worker[w].summary.rid : w \in {v \in Workers : InFlight(v)}}
    /\ UNCHANGED <<rating_type_ids, cron, subscribed, queueVars, storeVars, faults, shutCalls,
                   shutReturns, refreshes, tableChanges, leaderboard, init, refresh, shut>>

Next ==
    \/ \E i \in Workers : InitializeCall(i)
    \/ \E i \in Workers, ok \in BOOLEAN : InitializeRead(i, ok)
    \/ \E i \in Workers : InitializeStart(i)
    \/ \E i \in Workers, ok \in BOOLEAN : InitializeListen(i, ok)
    \/ \E ok \in BOOLEAN : RefreshRead(ok)
    \/ RefreshAssign
    \/ \E game_info \in Payloads : enqueue(game_info)
    \/ \E w \in Workers : WorkerRun(w)
    \/ \E w \in Workers : WorkerGet(w)
    \/ \E w \in Workers, ok \in BOOLEAN : WorkerResume(w, ok)
    \/ ShutdownCall
    \/ ShutdownReturn
    \/ kill

Spec == Init /\ [][Next]_vars

\* the service while the owner of the leaderboard table edits it
SpecEdits == Init /\ [][Next \/ TableChange]_vars

(***************************************************************************)
(* The service as the unit tests drive it: update_data is awaited on a     *)
(* service that was never initialized, and _rate is called, by one caller  *)
(* or by two at a time, with summaries built by hand whose rating type is  *)
(* the technical name.  worker[w] is then the frame of caller w, and keeps *)
(* the way _rate ended and its locals.                                     *)
(***************************************************************************)
TechnicalNames == {"global", "ladder_1v1"}

DirectSummaries ==
    {[game_id |-> 1, rating_type |-> rt, teams |-> teams, callback |-> "none", rid |-> 0] :
        rt \in TechnicalNames, teams \in {OneVsOne, BothWin}}

\* await service.update_data(): the select on leaderboard returns its rows, or raises
UpdateDataCall(ok) ==
    /\ ~cron
    /\ refresh.pc = "idle"
    /\ refreshes < MaxRefresh
    /\ ok \/ faults < MaxFaults
    /\ faults' = IF ok THEN faults ELSE faults + 1
    /\ refreshes' = refreshes + 1
    /\ refresh' = IF ok THEN [pc |-> "loaded", rows |-> leaderboard] ELSE refresh
    /\ UNCHANGED <<serviceVars, queueVars, storeVars, kills, shutCalls, shutReturns,
                   tableChanges, leaderboard, init, shut, worker, killedInFlight>>

\* await service._rate(summary), up to its first await
RateCall(w, summary) ==
    /\ worker[w].pc = "none"
    /\ init[w].pc = "none"
    /\ worker' = [worker EXCEPT ![w] = BeginRate(summary)]
    /\ UNCHANGED <<serviceVars, queueVars, storeVars, countVars, leaderboard, init, refresh,
                   shut, killedInFlight>>

\* RateResume in which a statement that raises takes the game's journal entries back
RateResume_rollback(w, ok) ==
    /\ worker[w].pc \in AwaitingStore
    /\ worker[w].summary.rid = 0
    /\ ok \/ faults < MaxFaults
    /\ faults' = IF ok THEN faults ELSE faults + 1
    /\ leaderboard_rating' = IF ok THEN RatingsAfter(worker[w]) ELSE leaderboard_rating
    /\ journal' = IF ok THEN JournalAfter(worker[w])
                  ELSE SelectSeq(journal, LAMBDA e : e.game_id # worker[w].summary.game_id)
    /\ published' = IF ok THEN PublishedAfter(worker[w]) ELSE published
    /\ worker' = [worker EXCEPT ![w] = IF ok THEN AfterAwait(@) ELSE [@ EXCEPT !.pc = "Exception"]]
    /\ UNCHANGED <<serviceVars, queueVars, kills, shutCalls, shutReturns, refreshes,
                   tableChanges, leaderboard, init, refresh, shut, killedInFlight>>

\* the store or bus call that caller w awaits returns, or raises
RateResume(w, ok) ==
    /\ worker[w].pc \in AwaitingStore
    /\ worker[w].summary.rid = 0
    /\ ok \/ faults < MaxFaults
    /\ faults' = IF ok THEN faults ELSE faults + 1
    /\ leaderboard_rating' = IF ok THEN RatingsAfter(worker[w]) ELSE leaderboard_rating
    /\ journal' = IF ok THEN JournalAfter(worker[w]) ELSE journal
    /\ published' = IF ok THEN PublishedAfter(worker[w]) ELSE published
    /\ worker' = [worker EXCEPT ![w] = IF ok THEN AfterAwait(@) ELSE [@ EXCEPT !.pc = "Exception"]]
    /\ UNCHANGED <<serviceVars, queueVars, kills, shutCalls, shutReturns, refreshes,
                   tableChanges, leaderboard, init, refresh, shut, killedInFlight>>

NextRate ==
    \/ \E ok \in BOOLEAN : UpdateDataCall(ok)
    \/ RefreshAssign
    \/ \E w \in Workers, summary \in DirectSummaries : RateCall(w, summary)
    \/ \E w \in Workers, ok \in BOOLEAN : RateResume(w, ok)

SpecRate == Init /\ [][NextRate]_vars



(***************************************************************************)
(* The initialized service while the owner of the leaderboard table edits  *)
(* it and the cron refreshes the directory, with one caller of _rate that  *)
(* passes the technical name.                                              *)
(***************************************************************************)
NextRefresh ==
    \/ \E i \in Workers : InitializeCall(i)
    \/ \E i \in Workers, ok \in BOOLEAN : InitializeRead(i, ok)
    \/ \E i \in Workers : InitializeStart(i)
    \/ \E i \in Workers, ok \in BOOLEAN : InitializeListen(i, ok)
    \/ \E ok \in BOOLEAN : RefreshRead(ok)
    \/ RefreshAssign
    \/ TableChange
    \/ \E w \in Workers : WorkerRun(w)
    \/ \E w \in Workers, summary \in DirectSummaries : RateCall(w, summary)
    \/ \E w \in Workers, ok \in BOOLEAN : RateResume(w, ok)

SpecRefresh == Init /\ [][NextRefresh]_vars

(***************************************************************************)
(* What the claims speak of.                                               *)
(***************************************************************************)
Queued == {m \in MsgIds : msgs[m].status = "queued"}
InFlightWorkers == {w \in Workers : InFlight(w)}

\* one team won and the other lost
OneWinner(summary) ==
    {summary.teams[1].outcome, summary.teams[2].outcome} = {"VICTORY", "DEFEAT"}

RECURSIVE SumPlayers(_)
SumPlayers(S) ==
    IF S = {} THEN 0
    ELSE LET m == CHOOSE x \in S : TRUE
         IN NumPlayers(msgs[m].summary.teams) + SumPlayers(S \ {m})

(***************************************************************************)
(* C1.  At most one request is in flight in every reachable state.         *)
(* The code lets two calls of initialize that overlap, and a call after    *)
(* shutdown has returned, each start a worker; two workers then hold a     *)
(* request each.                                                           *)
(***************************************************************************)
C1_AtMostOneInFlight == Cardinality(InFlightWorkers) <= 1

(***************************************************************************)
(* C3.  In the step in which shutdown returns, the queue is empty, no      *)
(* request is in flight, the gauge reads 0 and, when every accepted        *)
(* request has one winner and no store or bus call has raised, the journal *)
(* holds one entry per player of every accepted request.                   *)
(***************************************************************************)
C3_ShutdownReturnsDrained ==
    [][shutReturns' = shutReturns + 1 =>
        /\ queue' = <<>>
        /\ \A w \in Workers : worker'[w].pc \notin AwaitingStore
        /\ backlog' = 0
        /\ ((faults = 0 /\ \A m \in Queued : OneWinner(msgs[m].summary))
                => Len(journal') = SumPlayers(Queued))]_vars

\* the workers that kill() cancelled while they were rating a request
Abandoned == {w \in Workers : worker[w].pc = "cancelled" /\ worker[w].summary.rid # 0}

(***************************************************************************)
(* C4.  Every call of shutdown returns once the queue is empty.  A call    *)
(* that waits in Queue.join() is woken only by the task_done() that brings *)
(* the unfinished count to 0, so while it waits on an empty queue some     *)
(* worker must still hold a request it will report done.  The code leaves  *)
(* a request that kill() abandoned counted as unfinished for ever:         *)
(* ShutdownStaysStuck shows that such a call never returns, whatever       *)
(* happens next.                                                           *)
(***************************************************************************)
C4_ShutdownReturns == (shut = "joining" /\ queue = <<>>) => InFlightWorkers # {}

ShutdownStaysStuck == [][(shut = "joining" /\ Abandoned # {}) => shut' = "joining"]_vars

(***************************************************************************)
(* C8.  A worker that was rating a request when kill was called performs   *)
(* no further step: its frame never changes again, so the request's handle *)
(* is not invoked, nothing further is dequeued and nothing further written *)
(* by it.                                                                  *)
(***************************************************************************)
C8_KilledWorkerStops ==
    [][\A w \in Workers :
          worker[w].summary.rid \in killedInFlight =>
             /\ worker'[w] = worker[w]
             /\ msgs'[worker[w].summary.rid] = msgs[worker[w].summary.rid]]_vars


(***************************************************************************)
(* Steps, as the claims about single steps need them.                      *)
(***************************************************************************)
InQueue(m, q) == \E i \in 1..Len(q) : q[i].rid = m

\* the rating attempt of message m ends in this step
EndedNow(m) == msgs[m].ended = "no" /\ msgs'[m].ended # "no"
\* ... with a failure
FailedNow(m) == msgs[m].ended = "no" /\ msgs'[m].ended \in {"GameRatingError", "Exception"}
\* a handle that raises is invoked by the worker in this step
RaisedNow == \E m \in MsgIds : EndedNow(m) /\ msgs[m].summary.callback = "raises"

Live(pc) == pc \in {"start", "get"} \cup AwaitingStore

\* a worker ends in this step only because its loop condition is false or
\* because a handle raised
WorkersGoOn ==
    \A w \in Workers :
        (Live(worker[w].pc) /\ ~Live(worker'[w].pc)) =>
            \/ worker'[w].pc = "stopped" /\ ~accept_input' /\ queue' = <<>>
            \/ worker'[w].pc = "crashed" /\ RaisedNow

\* the worker has not left a request behind: the queue is empty, or a worker
\* rates a request it took off the queue in this step
NextTaken ==
    \/ queue' = <<>>
    \/ \E w \in Workers : worker'[w].pc \in AwaitingStore
                          /\ InQueue(worker'[w].summary.rid, queue)

(***************************************************************************)
(* C2.  A call of enqueue while _accept_input is False fails with          *)
(* ServiceNotReadyError whatever the payload, and leaves the queue, its    *)
(* unfinished count and the gauge as they were and invokes no handle.      *)
(***************************************************************************)
C2_NotAcceptingRefuses ==
    [][\A game_info \in Payloads :
          (enqueue(game_info) /\ ~accept_input) =>
             /\ msgs'[nmsg'].status = "ServiceNotReadyError"
             /\ queue' = queue
             /\ unfinished' = unfinished
             /\ backlog' = backlog
             /\ \A m \in MsgIds : msgs'[m].acks = msgs[m].acks]_vars

\* a message was refused after shutdown or kill, with a backlog left in the queue
C2_Witness ==
    /\ kills + shutCalls > 0
    /\ queue # <<>>
    /\ \E m \in MsgIds : msgs[m].status = "ServiceNotReadyError"

(***************************************************************************)
(* C5.  In a step in which the rating of a request fails, the request is   *)
(* reported done (every request ended in the step lowers the unfinished    *)
(* count by one), no worker ends because of it, and unless a handle raised *)
(* the worker has gone on to the next request in the queue, if any.        *)
(***************************************************************************)
C5_FailureDoesNotStopWorker ==
    [][(\E m \in MsgIds : FailedNow(m)) =>
          /\ unfinished' = unfinished - Cardinality({m \in MsgIds : EndedNow(m)})
          /\ WorkersGoOn
          /\ ~RaisedNow => NextTaken]_vars

\* the only worker failed message 1 with a computation error and then rated message 2
C5_Witness ==
    /\ init[2].pc = "none"
    /\ msgs[1].ended = "GameRatingError"
    /\ msgs[2].ended = "return"

(***************************************************************************)
(* C6.  The handle of an accepted request is never invoked before its      *)
(* rating attempt has ended and never twice; once the attempt has ended,   *)
(* however it ended, the handle has been invoked exactly once, and the     *)
(* request is neither in the queue nor being rated again.                  *)
(***************************************************************************)
C6_HandleInvokedOnce ==
    \A m \in Queued :
        /\ msgs[m].acks <= 1
        /\ msgs[m].ended = "no" => msgs[m].acks = 0
        /\ (msgs[m].ended # "no" /\ msgs[m].summary.callback # "none") => msgs[m].acks = 1
        /\ msgs[m].ended # "no" =>
              /\ ~InQueue(m, queue)
              /\ \A w \in Workers : worker[w].summary.rid # m
        /\ Cardinality({i \in 1..Len(queue) : queue[i].rid = m}) <= 1

\* one request failed, one was rated, and each handle has been invoked once
C6_Witness ==
    \E m, n \in Queued :
        /\ msgs[m].ended = "GameRatingError" /\ msgs[m].acks = 1
        /\ msgs[n].ended = "return" /\ msgs[n].acks = 1

(***************************************************************************)
(* C7.  A request that fails with a computation error changes no rating    *)
(* row and adds no journal entry and no notification, and the request      *)
(* behind it in the queue, one winner and one loser, is rated and          *)
(* persisted: its attempt returns and the journal gains an entry for each  *)
(* of its players.  The code ends that next request with "Unknown rating   *)
(* type" before anything is read or written.                               *)
(***************************************************************************)
C7_NextRequestPersisted ==
    [][/\ (\E m \in MsgIds : msgs[m].ended = "no" /\ msgs'[m].ended = "GameRatingError")
            => (leaderboard_rating' = leaderboard_rating /\ journal' = journal
                /\ published' = published)
       /\ \A m, n \in Queued :
            (/\ n = m + 1
             /\ msgs'[m].ended = "GameRatingError"
             /\ EndedNow(n)
             /\ OneWinner(msgs[n].summary)
             /\ NumPlayers(msgs[n].summary.teams) > 0
             /\ faults' = 0)
            => /\ msgs'[n].ended = "return"
               /\ Len(journal') >= NumPlayers(msgs[n].summary.teams)]_vars

Malformed(game_info) ==
    \/ game_info.keys # AllKeys
    \/ Len(game_info.teams) # 2
    \/ game_info.rating_type \notin RatingTypeNames
    \/ \E i \in 1..Len(game_info.teams) : game_info.teams[i].outcome \notin GameOutcomeNames

(***************************************************************************)
(* C9.  A call of enqueue in the accepting state with a payload that does  *)
(* not parse invokes the payload's handle once, puts nothing on the queue, *)
(* leaves the gauge, the store and the workers as they were; the payload   *)
(* is never queued later and its handle never invoked again.               *)
(***************************************************************************)
C9_MalformedAckedAndDropped ==
    [][/\ \A game_info \in Payloads :
            (enqueue(game_info) /\ accept_input /\ Malformed(game_info)) =>
               /\ msgs'[nmsg'].status = "dropped"
               /\ msgs'[nmsg'].acks = (IF game_info.ack = "none" THEN 0 ELSE 1)
               /\ \A m \in MsgIds \ {nmsg'} : msgs'[m] = msgs[m]
               /\ queue' = queue
               /\ unfinished' = unfinished
               /\ backlog' = backlog
               /\ leaderboard_rating' = leaderboard_rating
               /\ journal' = journal
               /\ published' = published
               /\ worker' = worker
       /\ \A m \in MsgIds :
            msgs[m].status = "dropped" => (msgs'[m] = msgs[m] /\ ~InQueue(m, queue'))]_vars

\* message 2 was dropped and acknowledged while message 1 was still waiting or being rated
C9_Witness ==
    /\ msgs[1].status = "queued"
    /\ msgs[1].ended = "no"
    /\ msgs[2].status = "dropped"
    /\ msgs[2].acks = 1

TypeAbsent(summary) == summary.rating_type \notin DOMAIN rating_type_ids.ids

(***************************************************************************)
(* C10.  A request with players whose rating type is not a key of the      *)
(* directory ends, in the step that takes it off the queue, with an        *)
(* exception: no table of the store and nothing on the bus changes, its    *)
(* handle is invoked, no worker ends because of it, and the worker goes on *)
(* to the next request.                                                    *)
(***************************************************************************)
C10_UnknownTypeDropped ==
    [][\A m \in Queued :
          (/\ InQueue(m, queue)
           /\ ~InQueue(m, queue')
           /\ NumPlayers(msgs[m].summary.teams) > 0
           /\ TypeAbsent(msgs[m].summary)) =>
             /\ msgs'[m].ended = "Exception"
             /\ msgs'[m].acks = (IF msgs[m].summary.callback = "none" THEN 0 ELSE 1)
             /\ leaderboard_rating' = leaderboard_rating
             /\ journal' = journal
             /\ published' = published
             /\ WorkersGoOn
             /\ ~RaisedNow => NextTaken]_vars

\* with no store or bus call raising, the only worker dropped message 1 for
\* its rating type, invoked its handle and rated message 2
C10_Witness ==
    /\ faults = 0
    /\ init[2].pc = "none"
    /\ msgs[1].ended = "Exception"
    /\ NumPlayers(msgs[1].summary.teams) > 0
    /\ msgs[1].acks = 1
    /\ msgs[2].ended = "return"

RowsOf(p, id) == {i \in 1..Len(leaderboard_rating) : Matches(leaderboard_rating[i], p, id)}

(***************************************************************************)
(* C11.  For every player and every rating-type id the table               *)
(* leaderboard_rating holds at most one row.  In the code two lookups for  *)
(* the same absent pair that interleave both find no row and both insert   *)
(* one: nothing in the table or in the insert makes the second one fail.   *)
(***************************************************************************)
C11_OneRowPerPair ==
    \A p \in Players, id \in {1, 2} : Cardinality(RowsOf(p, id)) <= 1

OutcomeOf(summary, p) ==
    summary.teams[CHOOSE t \in 1..2 : p \in summary.teams[t].player_ids].outcome

JournalStep(w) == worker[w].pc = "journal" /\ worker'[w].pc = "update"
UpdateStep(w) == worker[w].pc = "update" /\ worker'[w].pc = "publish"

(***************************************************************************)
(* C12.  Persisting one player's update: the step in which the journal     *)
(* insert returns appends one entry with the player's prior rating as      *)
(* before-values and the computed rating as after-values and changes no    *)
(* rating row; the step in which the update returns appends nothing to the *)
(* journal, finds the player's row, sets it to the computed rating, raises *)
(* its total_games by 1 and its won_games by 1 if the player's team has    *)
(* VICTORY and by 0 otherwise, and changes no other row.                   *)
(***************************************************************************)
C12_OneUpdatePersisted ==
    [][\A w \in Workers :
         LET f == worker[w]
             p == Head(f.todo)
         IN /\ JournalStep(w) =>
                 /\ Len(journal') = Len(journal) + 1
                 /\ SubSeq(journal', 1, Len(journal)) = journal
                 /\ journal'[Len(journal')].game_id = f.summary.game_id
                 /\ journal'[Len(journal')].player_id = p
                 /\ journal'[Len(journal')].rating_mean_before = f.old[p].mu
                 /\ journal'[Len(journal')].rating_deviation_before = f.old[p].sigma
                 /\ journal'[Len(journal')].rating_mean_after = f.new[p].mu
                 /\ journal'[Len(journal')].rating_deviation_after = f.new[p].sigma
                 /\ leaderboard_rating' = leaderboard_rating
            /\ UpdateStep(w) =>
                 /\ journal' = journal
                 /\ RowsOf(p, f.rtid) # {}
                 /\ Len(leaderboard_rating') = Len(leaderboard_rating)
                 /\ \A i \in 1..Len(leaderboard_rating) :
                      LET row == leaderboard_rating[i]
                          new == leaderboard_rating'[i]
                      IN IF i \in RowsOf(p, f.rtid)
                         THEN /\ new.mean = f.new[p].mu
                              /\ new.deviation = f.new[p].sigma
                              /\ new.total_games = row.total_games + 1
                              /\ new.won_games = row.won_games +
                                   (IF OutcomeOf(f.summary, p) = "VICTORY" THEN 1 ELSE 0)
                              /\ new.login_id = row.login_id
                              /\ new.leaderboard_id = row.leaderboard_id
                         ELSE new = row]_vars

\* a caller has persisted the winner's and the loser's update of one game
C12_Witness ==
    \E w \in Workers :
        /\ worker[w].pc = "return"
        /\ worker[w].summary.teams = OneVsOne
        /\ Len(journal) >= 2
        /\ \E i \in 1..Len(leaderboard_rating) :
              /\ leaderboard_rating[i].login_id = 2
              /\ leaderboard_rating[i].total_games = 1
              /\ leaderboard_rating[i].won_games = 0

LoadFails(i) == init[i].pc = "loading" /\ init'[i] # init[i] /\ faults' = faults + 1
LoadFailed(i) == init[i].pc = "failed" /\ worker[i].pc = "none"
NoWorkerYet == \A j \in Workers : worker[j].pc = "none"

(***************************************************************************)
(* C13.  When the select of update_data raises in a call of initialize,    *)
(* that call fails there: the step changes neither the accept flag, the    *)
(* task, the directory, the cron, the subscriptions, the workers nor the   *)
(* queue, and the call does nothing afterwards.  As long as no call of     *)
(* initialize has got past its load, the service does not accept, has no   *)
(* task, no directory and no subscription, and enqueue fails with          *)
(* ServiceNotReadyError.                                                   *)
(***************************************************************************)
C13_FailedLoadFailsInitialize ==
    [][/\ \A i \in Workers :
            /\ LoadFails(i) =>
                 /\ init'[i].pc = "failed"
                 /\ accept_input' = accept_input
                 /\ task' = task
                 /\ rating_type_ids' = rating_type_ids
                 /\ cron' = cron
                 /\ subscribed' = subscribed
                 /\ worker' = worker
                 /\ queue' = queue
            /\ LoadFailed(i) => (init'[i] = init[i] /\ worker'[i].pc = "none")
       /\ ((\E i \in Workers : LoadFailed(i)) /\ NoWorkerYet) =>
            /\ ~accept_input
            /\ task = 0
            /\ ~rating_type_ids.loaded
            /\ subscribed = 0
            /\ \A game_info \in Payloads :
                 enqueue(game_info) => msgs'[nmsg'].status = "ServiceNotReadyError"]_vars

\* the load of the first call failed and a message was refused afterwards
C13_Witness ==
    /\ LoadFailed(1)
    /\ NoWorkerYet
    /\ \E m \in MsgIds : msgs[m].status = "ServiceNotReadyError"

(***************************************************************************)
(* C14.  The service accepts requests only once the bus subscription has   *)
(* been established.  The code sets _accept_input and starts the worker    *)
(* before it awaits listen, and stays that way when listen raises.         *)
(***************************************************************************)
C14_AcceptingOnlySubscribed == accept_input => subscribed > 0

JournalHas(p, id, mu, sigma) ==
    \E k \in 1..Len(journal) :
        /\ journal[k].player_id = p
        /\ journal[k].leaderboard_id = id
        /\ journal[k].rating_mean_after = mu
        /\ journal[k].rating_deviation_after = sigma

PublishedHas(p, rt, mu, sigma) ==
    \E k \in 1..Len(published) :
        /\ published[k].player_id = p
        /\ published[k].rating_type = rt
        /\ published[k].new_rating_mean = mu
        /\ published[k].new_rating_deviation = sigma

NotifiedCount(p, rt) ==
    Cardinality({k \in 1..Len(published) :
                    published[k].player_id = p /\ published[k].rating_type = rt})

\* total_games of the row the seeded database holds for the pair, 0 when it holds none
SeededGames(p, id) ==
    LET S == {i \in 1..Len(SeededRatings) : Matches(SeededRatings[i], p, id)}
    IN IF S = {} THEN 0 ELSE SeededRatings[CHOOSE i \in S : TRUE].total_games

(***************************************************************************)
(* C15.  Once _rate has returned for a request, every player of its teams  *)
(* has a rating row, each of the player's rows carries the after-values of *)
(* a journal entry written for the player in the rating type, and the      *)
(* journal and the bus both hold the rating computed for the player by     *)
(* this request.  At no time have more notifications been published for a  *)
(* player and rating type than updates were applied to the player's row.   *)
(* In the code a lookup that interleaved with another one leaves a second  *)
(* row for the player, which no update of this request has touched.        *)
(***************************************************************************)
C15_PersistedThenNotified ==
    /\ \A w \in Workers :
          worker[w].pc = "return" =>
             LET f == worker[w]
                 id == rating_type_ids.ids[f.summary.rating_type]
             IN \A p \in f.summary.teams[1].player_ids \cup f.summary.teams[2].player_ids :
                   /\ RowsOf(p, id) # {}
                   /\ \A i \in RowsOf(p, id) :
                         JournalHas(p, id, leaderboard_rating[i].mean,
                                    leaderboard_rating[i].deviation)
                   /\ JournalHas(p, id, f.new[p].mu, f.new[p].sigma)
                   /\ PublishedHas(p, f.summary.rating_type, f.new[p].mu, f.new[p].sigma)
    /\ \A p \in Players, rt \in TechnicalNames :
          NotifiedCount(p, rt) > 0 =>
             \E i \in RowsOf(p, rating_type_ids.ids[rt]) :
                NotifiedCount(p, rt) <=
                    leaderboard_rating[i].total_games - SeededGames(p, rating_type_ids.ids[rt])

\* the same holds as long as no pair has two rows, which only lookups that
\* interleave bring about
C15_UnlessDuplicateRows == C11_OneRowPerPair => C15_PersistedThenNotified

(***************************************************************************)
(* C16.  In the state right after a request was put on the queue, and in   *)
(* the state right after one was taken off it, the gauge equals the number *)
(* of requests waiting in the queue.  The code sets the gauge after a put, *)
(* but after a get only once _rate has ended and the handle has returned.  *)
(***************************************************************************)
C16_GaugeFollowsQueue ==
    [][Len(queue') # Len(queue) => backlog' = Len(queue')]_vars

(***************************************************************************)
(* C17.  A call of initialize made while _task is not None returns at      *)
(* once: the step leaves the task, the workers, the queue and the accept   *)
(* flag as they were, and the call does nothing afterwards.                *)
(***************************************************************************)
C17_SecondInitializeRefused ==
    [][\A i \in Workers :
          /\ (InitializeCall(i) /\ task # 0) =>
                /\ init'[i].pc = "refused"
                /\ task' = task
                /\ worker' = worker
                /\ queue' = queue
                /\ unfinished' = unfinished
                /\ accept_input' = accept_input
          /\ init[i].pc = "refused" => (init'[i] = init[i] /\ worker'[i] = worker[i])]_vars

\* the second call was refused while the worker of the first was rating a request
C17_Witness ==
    /\ init[2].pc = "refused"
    /\ task = 1
    /\ worker[1].pc \in AwaitingStore
    /\ worker[2].pc = "none"

(***************************************************************************)
(* C18.  Players 1 and 2 have no ladder_1v1 rating.  When the only request *)
(* handed to enqueue so far is their game, VICTORY for 1 and DEFEAT for 2, *)
(* and its rating attempt has ended with no store or bus call having       *)
(* raised, player 1 has a stored ladder_1v1 mean above 1500 and player 2   *)
(* one below 1500.  The code ends the attempt with "Unknown rating type"   *)
(* and stores nothing.                                                     *)
(***************************************************************************)
C18_WinnerUpLoserDown ==
    (/\ nmsg = 1
     /\ msgs[1].ended # "no"
     /\ msgs[1].summary.rating_type = RatingTypeMember("LADDER_1V1")
     /\ msgs[1].summary.teams = OneVsOne
     /\ faults = 0)
    => /\ \E i \in RowsOf(1, SeededLeaderboard["ladder_1v1"]) :
             leaderboard_rating[i].mean > START_RATING_MEAN
       /\ \E i \in RowsOf(2, SeededLeaderboard["ladder_1v1"]) :
             leaderboard_rating[i].mean < START_RATING_MEAN

\* the rating attempt of message m has begun: a worker holds it, or it has ended
Begun(m) == msgs[m].ended # "no" \/ \E w \in Workers : worker[w].summary.rid = m

(***************************************************************************)
(* C19.  Requests are rated in the order of their enqueue: when the rating *)
(* attempt of a request has begun, the attempt of every request put on the *)
(* queue before it has ended, handle included.  In the code a second       *)
(* worker takes the next request while the first still rates its own.      *)
(***************************************************************************)
C19_RatedInQueueOrder ==
    \A m, n \in Queued : (m < n /\ Begun(n)) => msgs[m].ended # "no"

JournalCount(p, id) ==
    Cardinality({k \in 1..Len(journal) :
                    journal[k].player_id = p /\ journal[k].leaderboard_id = id})

\* no call of _rate is under way
AllEnded == \A w \in Workers : worker[w].pc \in RateEnded \cup {"none"}

(***************************************************************************)
(* C20.  Once every rating attempt has ended, by success or by a failure   *)
(* at any step, each journal entry of a player is matched by an update of  *)
(* the player's rating row: the row has been updated as often as the       *)
(* journal has entries for the player and the rating type.  In the code    *)
(* the journal insert and the row update are two statements with nothing   *)
(* around them: when the update raises, the entry stays.                   *)
(***************************************************************************)
C20_JournalMatchesRow ==
    AllEnded =>
        \A p \in Players, id \in {1, 2} :
            JournalCount(p, id) > 0 =>
                \E i \in RowsOf(p, id) :
                    leaderboard_rating[i].total_games - SeededGames(p, id) = JournalCount(p, id)

\* the same holds when no store or bus call has raised
C20_UnlessStoreRaises == faults = 0 => C20_JournalMatchesRow

\* caller w is in _persist_rating_changes, at one of the awaits of its loop
Persisting(w) == worker[w].pc \in {"journal", "update", "publish"}
\* the call that caller w awaits raises in this step
RaisesNow(w) == worker[w].pc \in AwaitingStore /\ worker'[w].pc = "Exception"

IsPrefix(s, t) == Len(s) <= Len(t) /\ SubSeq(t, 1, Len(s)) = s

PublishFails(w) == worker[w].pc = "publish" /\ worker'[w].pc = "Exception"

(***************************************************************************)
(* C22.  A publish that raises changes nothing in the store, and when      *)
(* players of the game are left the caller goes on to the journal insert   *)
(* of the next one.  In the code the exception of publish leaves           *)
(* _notify_rating_change, the loop and _rate: the players that follow get  *)
(* neither a journal entry nor a row update.                               *)
(***************************************************************************)
C22_PublishFailureContinues ==
    [][\A w \in Workers :
          PublishFails(w) =>
              /\ leaderboard_rating' = leaderboard_rating
              /\ journal' = journal
              /\ Len(worker[w].todo) > 1 =>
                    /\ worker'[w].pc = "journal"
                    /\ worker'[w].todo = Tail(worker[w].todo)]_vars

\* the store half alone: a publish that raises leaves rows and journal as written
C22_PublishFailureKeepsStore ==
    [][\A w \in Workers :
          PublishFails(w) => leaderboard_rating' = leaderboard_rating /\ journal' = journal]_vars

\* a worker that was running before the step is running after it, or has left
\* its loop because the loop condition is false
StaysOrStops(w) ==
    Live(worker[w].pc) =>
        \/ Live(worker'[w].pc)
        \/ worker'[w].pc = "stopped" /\ ~accept_input' /\ queue' = <<>>

(***************************************************************************)
(* C23.  In a step in which the handle of a request raises, the worker     *)
(* that invoked it stays in its loop (or leaves it because the loop        *)
(* condition is false) and no request is left behind in the queue.  In     *)
(* the code summary.callback() is called after the try statement, so its   *)
(* exception ends the worker task.                                         *)
(***************************************************************************)
C23_HandleFailureContained ==
    [][RaisedNow => (\A w \in Workers : StaysOrStops(w)) /\ NextTaken]_vars

\* a worker whose task ended with the exception of a handle is never running again
C23_CrashedStays ==
    [][\A w \in Workers : worker[w].pc = "crashed" => worker'[w].pc = "crashed"]_vars

\* what one select on the leaderboard table can return
Snapshots == {SeededLeaderboard, EditedLeaderboard}

\* the directory is unset, or all of one snapshot
WholeSnapshot(d) == IF d.loaded THEN d.ids \in Snapshots ELSE d = NoDirectory

\* the rows a successful select of update_data has returned and not yet assigned
ReadRows ==
    {init[i].rows : i \in {j \in Workers : init[j].pc = "loaded"}}
        \cup (IF refresh.pc = "loaded" THEN {refresh.rows} ELSE {})

(***************************************************************************)
(* C24.  _rating_type_ids is unset or exactly the rows of one successful   *)
(* select on the leaderboard table, before and after every step; a step    *)
(* that changes it assigns all the rows of one such select, and a select   *)
(* that raises is followed by no assignment.                               *)
(***************************************************************************)
C24_DirectoryIsOneSnapshot ==
    [][/\ WholeSnapshot(rating_type_ids)
       /\ WholeSnapshot(rating_type_ids')
       /\ rating_type_ids' # rating_type_ids =>
             /\ rating_type_ids'.loaded
             /\ rating_type_ids'.ids \in ReadRows
       /\ (faults' # faults /\ refreshes' # refreshes) =>
             /\ rating_type_ids' = rating_type_ids
             /\ refresh' = refresh /\ refresh.pc = "idle"]_vars

\* a refresh has replaced the snapshot of initialize by that of the edited table
C24_Witness ==
    /\ init[1].pc \in {"listening", "done"}
    /\ refreshes = 1
    /\ rating_type_ids = [loaded |-> TRUE, ids |-> EditedLeaderboard]

\* a summary with exactly two teams, each with an outcome of GameOutcome
TwoTeamsWithOutcomes(summary) ==
    /\ Len(summary.teams) = 2
    /\ \A t \in 1..2 : summary.teams[t].outcome \in GameOutcomeNames

(***************************************************************************)
(* C25.  Every request enqueue has put on the queue has a game id, a       *)
(* rating type of RatingType, and exactly two teams, each with an outcome  *)
(* of GameOutcome and at least one player.  from_game_info_dict builds     *)
(* set(team["player_ids"]) without looking at its size, so a payload with  *)
(* an empty team is queued.                                                *)
(***************************************************************************)
C25_QueuedHasPlayers ==
    \A m \in Queued :
        /\ msgs[m].summary.game_id = 1
        /\ msgs[m].summary.rating_type \in {RatingTypeMember(n) : n \in RatingTypeNames}
        /\ TwoTeamsWithOutcomes(msgs[m].summary)
        /\ \A t \in 1..2 : msgs[m].summary.teams[t].player_ids # {}

\* all of it but the players holds
C25_QueuedIsParsed ==
    \A m \in Queued :
        /\ msgs[m].summary.game_id = 1
        /\ msgs[m].summary.rating_type \in {RatingTypeMember(n) : n \in RatingTypeNames}
        /\ TwoTeamsWithOutcomes(msgs[m].summary)

\* caller w goes from one await of a request to the next one of the same request
SameRequest(w) ==
    /\ worker[w].pc \in AwaitingStore
    /\ worker'[w].pc \in AwaitingStore
    /\ worker'[w].summary = worker[w].summary

\* the rating type id of the statement caller w awaits is the one of its previous statement
KeepsId(w) == worker[w].rtid # NoneId => worker'[w].rtid = worker[w].rtid

(***************************************************************************)
(* C26.  From one statement of a request to the next (the select of a      *)
(* player's row, the insert of a default row, the journal insert, the row  *)
(* update) the rating type id in use stays the same, also when the cron    *)
(* job has assigned a new directory in between.  In the code each of       *)
(* _get_player_rating, _create_default_rating and every turn of the loop   *)
(* of _persist_rating_changes reads self._rating_type_ids anew.            *)
(***************************************************************************)
C26_OneSnapshotPerRequest ==
    [][\A w \in Workers : SameRequest(w) => KeepsId(w)]_vars

\* the ids differ only after the leaderboard table was edited
C26_UnlessTableChanges ==
    [][\A w \in Workers : (SameRequest(w) /\ tableChanges = 0) => KeepsId(w)]_vars

\* a worker waits in Queue.get() on the empty queue of a service that takes no input
BlockedInGet(w) == worker[w].pc = "get" /\ queue = <<>> /\ ~accept_input

(***************************************************************************)
(* C27.  Once shutdown has returned and the service has not been           *)
(* initialized again, no worker waits in Queue.get().  shutdown only       *)
(* clears _accept_input, joins the queue and forgets the task: a worker    *)
(* that was waiting on the empty queue when shutdown was called is not     *)
(* woken, and C27_BlockedStaysBlocked shows that it waits until kill() or  *)
(* a new initialize(), whatever else happens.                              *)
(***************************************************************************)
C27_NoWorkerWaitsAfterShutdown ==
    (shutReturns > 0 /\ ~accept_input /\ queue = <<>>) =>
        \A w \in Workers : worker[w].pc # "get"

C27_BlockedStaysBlocked ==
    [][\A w \in Workers :
          (BlockedInGet(w) /\ kills' = kills /\ ~accept_input') => BlockedInGet(w)']_vars

\* a worker that ends the last request while shutdown waits in join leaves its loop
C27_BusyWorkerStops ==
    [][\A w \in Workers :
          (shut = "joining" /\ shut' = "woken" /\ ~accept_input'
              /\ worker[w].pc \in AwaitingStore /\ worker'[w].pc \notin AwaitingStore) =>
                 worker'[w].pc \in {"stopped", "crashed"}]_vars

\* the journal entries of a player in a rating type, as indices into the journal
EntriesOf(p, id) ==
    {k \in 1..Len(journal) : journal[k].player_id = p /\ journal[k].leaderboard_id = id}

\* the rating the pair had before any request: its seeded row, or the default
RatingAtStart(p, id) ==
    LET S == {i \in 1..Len(SeededRatings) : Matches(SeededRatings[i], p, id)}
    IN IF S = {} THEN Rating(START_RATING_MEAN, START_RATING_DEV)
       ELSE LET r == SeededRatings[CHOOSE i \in S : TRUE] IN Rating(r.mean, r.deviation)

Before(k) == Rating(journal[k].rating_mean_before, journal[k].rating_deviation_before)
After(k) == Rating(journal[k].rating_mean_after, journal[k].rating_deviation_after)

\* the entry of the same pair written last before entry k, 0 when k is the first
PreviousEntry(p, id, k) ==
    LET E == {j \in EntriesOf(p, id) : j < k}
    IN IF E = {} THEN 0 ELSE CHOOSE j \in E : \A i \in E : i <= j

Chained(p, id) ==
    /\ \A k \in EntriesOf(p, id) :
          LET j == PreviousEntry(p, id, k)
          IN Before(k) = IF j = 0 THEN RatingAtStart(p, id) ELSE After(j)
    /\ EntriesOf(p, id) # {} =>
          LET last == PreviousEntry(p, id, Len(journal) + 1)
          IN /\ RowsOf(p, id) # {}
             /\ \A i \in RowsOf(p, id) :
                   Rating(leaderboard_rating[i].mean, leaderboard_rating[i].deviation)
                       = After(last)

(***************************************************************************)
(* C28.  Whenever no call of _rate is under way, the journal entries of    *)
(* every player in every rating type form a chain: the before-values of    *)
(* an entry are the after-values of the pair's previous entry (for the     *)
(* first entry, the rating the pair started with), and the pair's rating   *)
(* row carries the after-values of its latest entry.  In the code an       *)
(* update that raises leaves the entry without the row change, and two     *)
(* overlapping requests both start from the same row.                      *)
(***************************************************************************)
C28_JournalIsChain ==
    AllEnded => \A p \in Players, id \in {1, 2} : Chained(p, id)

\* the chain holds when no call has raised and only one request was rated
C28_UnlessFaultOrOverlap ==
    (faults = 0 /\ Cardinality({w \in Workers : worker[w].pc # "none"}) <= 1)
        => C28_JournalIsChain

\* the seeded database holds no row for the pair
Unrated(p, id) == \A i \in 1..Len(SeededRatings) : ~Matches(SeededRatings[i], p, id)

DefaultRow(p, id) == RatingRow(p, id, START_RATING_MEAN, START_RATING_DEV, 0, 0)

\* the players of a request
PlayersOf(summary) == summary.teams[1].player_ids \cup summary.teams[2].player_ids

\* every player of the request that caller w dropped has a row, and a player
\* who had none and was rated by no other request has the default row
DefaultsKept(w) ==
    LET id == DirGet(rating_type_ids.ids, worker[w].summary.rating_type) IN
    \A p \in PlayersOf(worker[w].summary) :
        /\ RowsOf(p, id) # {}
        /\ (Unrated(p, id) /\ JournalCount(p, id) = 0) =>
              \A i \in RowsOf(p, id) : leaderboard_rating[i] = DefaultRow(p, id)

\* no step removes a row of leaderboard_rating or gives it to another pair
RowsStay ==
    /\ Len(leaderboard_rating') >= Len(leaderboard_rating)
    /\ \A i \in 1..Len(leaderboard_rating) :
          /\ leaderboard_rating'[i].login_id = leaderboard_rating[i].login_id
          /\ leaderboard_rating'[i].leaderboard_id = leaderboard_rating[i].leaderboard_id

(***************************************************************************)
(* C29.  When compute_rating fails for a request, and at every later       *)
(* time, each of the request's players has a rating row, and a player who  *)
(* had no row before and whom no other request has rated has the default   *)
(* row (START_RATING_MEAN, START_RATING_DEV, 0 games, 0 won): the rows     *)
(* that _create_default_rating inserted while the ratings were fetched     *)
(* are not taken back, and no step removes a row.                          *)
(***************************************************************************)
C29_DefaultRowsKept ==
    [][/\ \A w \in Workers : worker'[w].pc = "GameRatingError" => DefaultsKept(w)'
       /\ RowsStay]_vars

\* a request of players 1 and 2 was dropped with a computation error after a
\* default row was created for player 2
C29_Witness ==
    \E w \in Workers :
        /\ worker[w].pc = "GameRatingError"
        /\ PlayersOf(worker[w].summary) = {1, 2}
        /\ Unrated(2, 1)
        /\ worker[w].summary.rating_type = "global"
        /\ \E i \in 1..Len(leaderboard_rating) : leaderboard_rating[i] = DefaultRow(2, 1)

====
